---- MODULE Spec2Model ----
(***************************************************************************)
(* Model of the Stage 0 Profile API (src/main.py): the three endpoints /,  *)
(* /health and /me, the outbound call of fetch_cat_fact with its three     *)
(* except clauses, and the assembly and rendering of the /me response.     *)
(*                                                                         *)
(* One request is one asyncio task.  The only suspension point of a task   *)
(* is the await of client.get in fetch_cat_fact, so a /me request takes    *)
(* two atomic steps: everything up to the await, and everything after it.  *)
(***************************************************************************)
EXTENDS Integers, Sequences, FiniteSets

\* Number of inbound requests of one run.
NumReqs == 2
\* Number of ticks the wall clock advances during one run.
ClockSpan == 1
\* Ticks per second: the microsecond resolution of datetime, scaled down.
TicksPerSec == 2

Requests == 1..NumReqs

VARIABLES
  USER_EMAIL, USER_NAME, USER_STACK, \* module-level configuration
  clock,       \* the wall clock read by datetime.now
  path,        \* request -> the endpoint it asked for ("" before it arrives)
  pc,          \* request -> "idle", "awaiting", "done" or "cancelled"
  startedAt,   \* request -> clock when the request arrived
  returnedAt,  \* request -> clock when its response was emitted
  upstream,    \* request -> what the await of client.get delivered
  fetched,     \* request -> how fetch_cat_fact ended
  resp,        \* request -> the response emitted
  log,         \* request -> the log entries emitted on its behalf
  attempts     \* request -> outbound GETs issued on its behalf

vars == <<USER_EMAIL, USER_NAME, USER_STACK, clock, path, pc, startedAt,
          returnedAt, upstream, fetched, resp, log, attempts>>

config == <<USER_EMAIL, USER_NAME, USER_STACK>>

-----------------------------------------------------------------------------
(* Python and JSON values.  A value is a record [type, val].               *)

PyStr(s) == [type |-> "str", val |-> s]
PyNone == [type |-> "NoneType", val |-> ""]
PyInt(s) == [type |-> "int", val |-> s]
PyNaN == [type |-> "float", val |-> "nan"]

JStr(s) == [type |-> "string", val |-> s]
JNull == [type |-> "null", val |-> ""]
JNum(s) == [type |-> "number", val |-> s]

\* A str holding an unpaired surrogate, as json.loads makes of "\ud800".
LoneSurrogate == "<U+D800>"

\* What json.loads makes of the value of a key.
JsonToPy(j) ==
  CASE j.type = "string" -> PyStr(j.val)
    [] j.type = "null" -> PyNone
    [] j.type = "number" /\ j.val = "NaN" -> PyNaN
    [] j.type = "number" -> PyInt(j.val)

\* json.dumps(..., allow_nan=False).encode("utf-8") accepts the value.
Renderable(v) ==
  /\ ~(v.type = "float" /\ v.val = "nan")
  /\ ~(v.type = "str" /\ v.val = LoneSurrogate)

\* What json.dumps writes for a renderable value.
PyToJson(v) ==
  CASE v.type = "str" -> JStr(v.val)
    [] v.type = "NoneType" -> JNull
    [] v.type = "int" -> JNum(v.val)
    [] v.type = "float" -> JNum(v.val)

-----------------------------------------------------------------------------
(* Exceptions: the class hierarchy the except clauses match against.       *)

ExcParent(cls) ==
  CASE cls = "ConnectTimeout" -> "TimeoutException"
    [] cls = "TimeoutException" -> "TransportError"
    [] cls = "ConnectError" -> "NetworkError"
    [] cls = "NetworkError" -> "TransportError"
    [] cls = "TransportError" -> "RequestError"
    [] cls = "RequestError" -> "HTTPError"
    [] cls = "HTTPStatusError" -> "HTTPError"
    [] cls = "HTTPError" -> "Exception"
    [] cls = "JSONDecodeError" -> "ValueError"
    [] cls = "UnicodeEncodeError" -> "ValueError"
    [] cls = "ValueError" -> "Exception"
    [] cls = "AttributeError" -> "Exception"
    [] cls = "Exception" -> "BaseException"
    [] cls = "CancelledError" -> "BaseException"
    [] OTHER -> "object"

RECURSIVE isinstance(_, _)
isinstance(cls, target) ==
  IF cls = target THEN TRUE
  ELSE IF cls = "object" THEN FALSE
  ELSE isinstance(ExcParent(cls), target)

-----------------------------------------------------------------------------
(* Time: datetime.now(timezone.utc), isoformat and its inverse.            *)

\* utcnow read once at import instead of at every request.
utcnow_at_import(t) ==
  [sec |-> (TicksPerSec - 1) \div TicksPerSec, usec |-> (TicksPerSec - 1) % TicksPerSec]

\* datetime.now(timezone.utc) at clock tick t.
utcnow(t) == [sec |-> t \div TicksPerSec, usec |-> t % TicksPerSec]

\* datetime.isoformat(): the fraction is written only when it is not zero.
isoformat(dt) ==
  [seconds |-> dt.sec,
   fraction |-> IF dt.usec = 0 THEN <<>> ELSE <<dt.usec>>,
   offset |-> "+00:00"]

\* datetime.fromisoformat(), as the test script parses a timestamp.
fromisoformat(s) ==
  [sec |-> s.seconds,
   usec |-> IF s.fraction = <<>> THEN 0 ELSE s.fraction[1]]

\* Order of two datetimes.
Earlier(a, b) == a.sec < b.sec \/ (a.sec = b.sec /\ a.usec < b.usec)

-----------------------------------------------------------------------------
(* The upstream API: what the await of client.get can deliver.             *)

Raised(cls) ==
  [kind |-> "raise", exc |-> cls, status |-> 0,
   body |-> [shape |-> "", hasFact |-> FALSE, fact |-> JNull]]
Response(status, body) ==
  [kind |-> "response", exc |-> "", status |-> status, body |-> body]

Malformed == [shape |-> "malformed", hasFact |-> FALSE, fact |-> JNull]
NonObject == [shape |-> "array", hasFact |-> FALSE, fact |-> JNull]
EmptyObject == [shape |-> "object", hasFact |-> FALSE, fact |-> JNull]
WithFact(j) == [shape |-> "object", hasFact |-> TRUE, fact |-> j]

CatFact == JStr("Cats sleep 70% of their lives.")

FactValues == {CatFact, JStr(""), JNull, JNum("NaN"), JStr(LoneSurrogate)}

Bodies == {Malformed, NonObject, EmptyObject} \cup {WithFact(j) : j \in FactValues}

Failures == {Raised("ConnectTimeout"), Raised("ConnectError")}

AwaitResults ==
  Failures
  \cup {Response(200, b) : b \in Bodies}
  \cup {Response(301, Malformed), Response(503, WithFact(CatFact))}

NoResult == [kind |-> "none", exc |-> "", status |-> 0, body |-> Malformed]

\* httpx.Response.is_success
is_success(status) == status \in 200..299

-----------------------------------------------------------------------------
(* Log entries.                                                            *)

Info(m) == [level |-> "INFO", msg |-> m]
Error(m) == [level |-> "ERROR", msg |-> m]

LogFetching == Info("Fetching cat fact")
LogFetched == Info("Successfully fetched cat fact")
LogTimeout == Error("Cat Facts API request timed out")
LogStatus == Error("Cat Facts API returned error status")
LogOther == Error("Error fetching cat fact")
LogProcessed == Info("Successfully processed /me request")
LogInternal == Error("Error processing /me request")

-----------------------------------------------------------------------------
(* fetch_cat_fact after the await.                                         *)

Return(v, lg) == [kind |-> "return", value |-> v, exc |-> "", log |-> lg]
Raise(e, lg) == [kind |-> "raise", value |-> PyNone, exc |-> e, log |-> lg]

FallbackTimeout == PyStr("Cat fact unavailable: API timeout")
FallbackStatus == PyStr("Cat fact unavailable: API error")
FallbackOther == PyStr("Cat fact unavailable: Network error")
NoFact == PyStr("No cat fact available")

\* fetch_try with the success entry logged before the body is parsed.
fetch_try_logs_early(result) ==
  IF result.kind = "raise" THEN Raise(result.exc, <<>>)
  ELSE IF ~is_success(result.status) THEN Raise("HTTPStatusError", <<>>)
  ELSE IF result.body.shape = "malformed" THEN Raise("JSONDecodeError", <<LogFetched>>)
  ELSE IF result.body.shape # "object" THEN Raise("AttributeError", <<LogFetched>>)
  ELSE Return(IF result.body.hasFact THEN JsonToPy(result.body.fact) ELSE NoFact,
              <<LogFetched>>)

\* The try suite from the await on: raise_for_status, json, data.get.
fetch_try(result) ==
  IF result.kind = "raise" THEN Raise(result.exc, <<>>)
  ELSE IF ~is_success(result.status) THEN Raise("HTTPStatusError", <<>>)
  ELSE IF result.body.shape = "malformed" THEN Raise("JSONDecodeError", <<>>)
  ELSE IF result.body.shape # "object" THEN Raise("AttributeError", <<>>)
  ELSE Return(IF result.body.hasFact THEN JsonToPy(result.body.fact) ELSE NoFact,
              <<LogFetched>>)

\* fetch_except with the catch-all clause written first.
fetch_except_catchall(t) ==
  IF isinstance(t.exc, "Exception")
    THEN Return(FallbackOther, t.log \o <<LogOther>>)
  ELSE IF isinstance(t.exc, "TimeoutException")
    THEN Return(FallbackTimeout, t.log \o <<LogTimeout>>)
  ELSE IF isinstance(t.exc, "HTTPStatusError")
    THEN Return(FallbackStatus, t.log \o <<LogStatus>>)
  ELSE t

\* fetch_except with a bare except as its last clause.
fetch_except_bare(t) ==
  IF isinstance(t.exc, "TimeoutException")
    THEN Return(FallbackTimeout, t.log \o <<LogTimeout>>)
  ELSE IF isinstance(t.exc, "HTTPStatusError")
    THEN Return(FallbackStatus, t.log \o <<LogStatus>>)
  ELSE Return(FallbackOther, t.log \o <<LogOther>>)

\* The three except clauses, in order; anything else propagates.
fetch_except(t) ==
  IF isinstance(t.exc, "TimeoutException")
    THEN Return(FallbackTimeout, t.log \o <<LogTimeout>>)
  ELSE IF isinstance(t.exc, "HTTPStatusError")
    THEN Return(FallbackStatus, t.log \o <<LogStatus>>)
  ELSE IF isinstance(t.exc, "Exception")
    THEN Return(FallbackOther, t.log \o <<LogOther>>)
  ELSE t

fetch_cat_fact(result) ==
  LET t == fetch_try(result)
  IN IF t.kind = "return" THEN t ELSE fetch_except(t)

-----------------------------------------------------------------------------
(* Responses.                                                              *)

NoResponse == [code |-> 0, body |-> [none |-> TRUE]]

InternalError == [code |-> 500, body |-> [detail |-> "Internal server error"]]

RootResponse ==
  [code |-> 200,
   body |-> [message |-> "Welcome to Stage 0 Profile API",
             endpoints |-> [me |-> "GET - Returns profile information with cat fact",
                            health |-> "GET - Health check endpoint"]]]

HealthResponse(t) ==
  [code |-> 200,
   body |-> [status |-> "healthy", timestamp |-> isoformat(utcnow(t))]]

\* The exception JSONResponse raises while rendering the content.
RenderError(v) ==
  IF v.type = "str" THEN "UnicodeEncodeError" ELSE "ValueError"

\* JSONResponse(content=response_data, status_code=200)
JSONResponse(data) ==
  [code |-> 200,
   body |-> [status |-> data.status, user |-> data.user,
             timestamp |-> data.timestamp, fact |-> PyToJson(data.fact)]]

Emit(r, lg) == [kind |-> "response", resp |-> r, exc |-> "", log |-> lg]
Propagate(e, lg) == [kind |-> "raise", resp |-> NoResponse, exc |-> e, log |-> lg]

\* profile_except with the error's text as the detail of the 500.
profile_except_leaky(e, lg) ==
  IF isinstance(e, "Exception")
    THEN Emit([code |-> 500, body |-> [detail |-> e]], lg \o <<LogInternal>>)
  ELSE Propagate(e, lg)

\* except Exception of get_profile: log, raise HTTPException(500).
profile_except(e, lg) ==
  IF isinstance(e, "Exception")
    THEN Emit(InternalError, lg \o <<LogInternal>>)
  ELSE Propagate(e, lg)

\* get_profile from the return of fetch_cat_fact on, at clock tick t.
profile_assemble(f, t, cfg) ==
  LET current_timestamp == isoformat(utcnow(t))
      response_data ==
        [status |-> "success",
         user |-> [email |-> cfg[1], name |-> cfg[2], stack |-> cfg[3]],
         timestamp |-> current_timestamp,
         fact |-> f.value]
      lg == f.log \o <<LogProcessed>>
  IN IF Renderable(f.value)
       THEN Emit(JSONResponse(response_data), lg)
     ELSE profile_except(RenderError(f.value), lg)

\* get_profile from the await on.
get_profile(result, t, cfg) ==
  LET f == fetch_cat_fact(result)
  IN IF f.kind = "raise" THEN profile_except(f.exc, f.log)
     ELSE profile_assemble(f, t, cfg)

NotFetched == [kind |-> "none", value |-> PyNone, exc |-> ""]
Outcome(f) == [kind |-> f.kind, value |-> f.value, exc |-> f.exc]

-----------------------------------------------------------------------------
(* The state machine.                                                      *)

\* The configuration read at import: the defaults of os.getenv.
Profile == <<"muibiyusuf@hotmail.com", "Yusuf Muibi", "Python/FastAPI">>

\* The process starts on the last tick before a second boundary, so that a
\* run sees timestamps with and without a fraction, in two different seconds.
StartClock == TicksPerSec - 1

Init ==
  /\ USER_EMAIL = Profile[1] /\ USER_NAME = Profile[2] /\ USER_STACK = Profile[3]
  /\ clock = StartClock
  /\ path = [r \in Requests |-> ""]
  /\ pc = [r \in Requests |-> "idle"]
  /\ startedAt = [r \in Requests |-> StartClock]
  /\ returnedAt = [r \in Requests |-> StartClock]
  /\ upstream = [r \in Requests |-> NoResult]
  /\ fetched = [r \in Requests |-> NotFetched]
  /\ resp = [r \in Requests |-> NoResponse]
  /\ log = [r \in Requests |-> <<>>]
  /\ attempts = [r \in Requests |-> 0]

\* Requests are numbered in the order they arrive.
Arrives(r) == pc[r] = "idle" /\ \A q \in Requests : q < r => pc[q] # "idle"

\* GET /
root(r) ==
  /\ Arrives(r)
  /\ path' = [path EXCEPT ![r] = "/"]
  /\ pc' = [pc EXCEPT ![r] = "done"]
  /\ startedAt' = [startedAt EXCEPT ![r] = clock]
  /\ returnedAt' = [returnedAt EXCEPT ![r] = clock]
  /\ resp' = [resp EXCEPT ![r] = RootResponse]
  /\ UNCHANGED <<config, clock, upstream, fetched, log, attempts>>

\* health_check probing the upstream API before it answers.
health_check_probing(r) ==
  /\ Arrives(r)
  /\ path' = [path EXCEPT ![r] = "/health"]
  /\ pc' = [pc EXCEPT ![r] = "done"]
  /\ startedAt' = [startedAt EXCEPT ![r] = clock]
  /\ returnedAt' = [returnedAt EXCEPT ![r] = clock]
  /\ resp' = [resp EXCEPT ![r] = HealthResponse(clock)]
  /\ attempts' = [attempts EXCEPT ![r] = @ + 1]
  /\ UNCHANGED <<config, clock, upstream, fetched, log>>

\* GET /health
health_check(r) ==
  /\ Arrives(r)
  /\ path' = [path EXCEPT ![r] = "/health"]
  /\ pc' = [pc EXCEPT ![r] = "done"]
  /\ startedAt' = [startedAt EXCEPT ![r] = clock]
  /\ returnedAt' = [returnedAt EXCEPT ![r] = clock]
  /\ resp' = [resp EXCEPT ![r] = HealthResponse(clock)]
  /\ UNCHANGED <<config, clock, upstream, fetched, log, attempts>>

\* GET /me up to the await of client.get: log, send the outbound GET.
me_call(r) ==
  /\ Arrives(r)
  /\ path' = [path EXCEPT ![r] = "/me"]
  /\ pc' = [pc EXCEPT ![r] = "awaiting"]
  /\ startedAt' = [startedAt EXCEPT ![r] = clock]
  /\ log' = [log EXCEPT ![r] = <<LogFetching>>]
  /\ attempts' = [attempts EXCEPT ![r] = @ + 1]
  /\ UNCHANGED <<config, clock, returnedAt, upstream, fetched, resp>>

\* Resume with the upstream result kept in a module-level variable that every
\* request reads: the first result delivered serves all later requests.
Resume_shared(r, result) ==
  LET first == IF \E q \in Requests : upstream[q].kind = "response"
                 THEN upstream[CHOOSE q \in Requests : upstream[q].kind = "response"]
                 ELSE result
      g == get_profile(first, clock, config)
  IN /\ upstream' = [upstream EXCEPT ![r] = result]
     /\ fetched' = [fetched EXCEPT ![r] = Outcome(fetch_cat_fact(first))]
     /\ log' = [log EXCEPT ![r] = @ \o g.log]
     /\ resp' = [resp EXCEPT ![r] = g.resp]
     /\ pc' = [pc EXCEPT ![r] = IF g.kind = "response" THEN "done" ELSE "cancelled"]
     /\ returnedAt' = [returnedAt EXCEPT ![r] = clock]
     /\ UNCHANGED <<config, clock, path, startedAt, attempts>>

\* The task of request r resumes with what the await delivered.
Resume(r, result) ==
  LET g == get_profile(result, clock, config)
  IN /\ upstream' = [upstream EXCEPT ![r] = result]
     /\ fetched' = [fetched EXCEPT ![r] = Outcome(fetch_cat_fact(result))]
     /\ log' = [log EXCEPT ![r] = @ \o g.log]
     /\ resp' = [resp EXCEPT ![r] = g.resp]
     /\ pc' = [pc EXCEPT ![r] = IF g.kind = "response" THEN "done" ELSE "cancelled"]
     /\ returnedAt' = [returnedAt EXCEPT ![r] = clock]
     /\ UNCHANGED <<config, clock, path, startedAt, attempts>>

\* me_resume that sends the outbound GET again after a failed call.
me_resume_retry(r) ==
  /\ pc[r] = "awaiting"
  /\ \E result \in AwaitResults :
       IF fetch_try(result).kind = "raise" /\ attempts[r] < 2
         THEN /\ attempts' = [attempts EXCEPT ![r] = @ + 1]
              /\ UNCHANGED <<config, clock, path, pc, startedAt, returnedAt,
                             upstream, fetched, resp, log>>
         ELSE Resume(r, result)

\* GET /me from the await on: the upstream call ends.
me_resume(r) ==
  /\ pc[r] = "awaiting"
  /\ \E result \in AwaitResults : Resume(r, result)

\* The task of a pending /me request is cancelled: the await raises CancelledError.
me_cancel(r) ==
  /\ pc[r] = "awaiting"
  /\ Resume(r, Raised("CancelledError"))

Tick ==
  /\ clock < StartClock + ClockSpan
  /\ clock' = clock + 1
  /\ UNCHANGED <<config, path, pc, startedAt, returnedAt, upstream, fetched,
                 resp, log, attempts>>

Next ==
  \/ \E r \in Requests : root(r)
  \/ \E r \in Requests : health_check(r)
  \/ \E r \in Requests : me_call(r)
  \/ \E r \in Requests : me_resume(r)
  \/ \E r \in Requests : me_cancel(r)
  \/ Tick

Spec == Init /\ [][Next]_vars

-----------------------------------------------------------------------------
(* Vocabulary of the properties.                                           *)

Me(r) == path[r] = "/me"
Emitted(r) == pc[r] = "done"
Delivered(r) == upstream[r].kind # "none"

FullBody == {"status", "user", "timestamp", "fact"}

\* The kinds of upstream outcome, read off what the upstream call delivered.
IsTimeout(result) == result.kind = "raise" /\ result.exc = "ConnectTimeout"
IsBadStatus(result) == result.kind = "response" /\ result.status \notin 200..299
IsParsedObject(result) ==
  /\ result.kind = "response"
  /\ result.status \in 200..299
  /\ result.body.shape = "object"
IsOtherFailure(result) ==
  \/ result.kind = "raise" /\ result.exc = "ConnectError"
  \/ /\ result.kind = "response"
     /\ result.status \in 200..299
     /\ result.body.shape # "object"

\* C1: for every upstream outcome, a GET /me request returns HTTP 200 with the
\* four fields status, user, timestamp and fact, status "success" and fact a
\* non-empty string.
C1_AlwaysCompleteSuccess ==
  \A r \in Requests :
    (Me(r) /\ Emitted(r)) =>
      /\ resp[r].code = 200
      /\ DOMAIN resp[r].body = FullBody
      /\ resp[r].body.status = "success"
      /\ resp[r].body.fact.type = "string"
      /\ resp[r].body.fact.val # ""

\* C2: on a 2xx response with a JSON object body, fetch_cat_fact returns the
\* value of the fact key, or "No cat fact available" when the key is absent,
\* and the /me response carries that value unchanged in its fact field.
C2_FactPassedThrough ==
  \A r \in Requests :
    (Me(r) /\ Emitted(r) /\ IsParsedObject(upstream[r])) =>
      /\ fetched[r].kind = "return"
      /\ fetched[r].value =
           IF upstream[r].body.hasFact
             THEN JsonToPy(upstream[r].body.fact)
             ELSE PyStr("No cat fact available")
      /\ resp[r].code = 200
      /\ resp[r].body.fact =
           IF upstream[r].body.hasFact
             THEN upstream[r].body.fact
             ELSE JStr("No cat fact available")

\* C3: every failed upstream call makes fetch_cat_fact return the fallback
\* string of its own kind (timeout, non-2xx status, anything else), and
\* fetch_cat_fact never raises on a failed call.
C3_ThreeFallbacks ==
  \A r \in Requests :
    (Me(r) /\ Delivered(r)) =>
      /\ IsTimeout(upstream[r]) =>
           (fetched[r].kind = "return"
            /\ fetched[r].value = PyStr("Cat fact unavailable: API timeout"))
      /\ IsBadStatus(upstream[r]) =>
           (fetched[r].kind = "return"
            /\ fetched[r].value = PyStr("Cat fact unavailable: API error"))
      /\ IsOtherFailure(upstream[r]) =>
           (fetched[r].kind = "return"
            /\ fetched[r].value = PyStr("Cat fact unavailable: Network error"))

\* C3 witness: a non-2xx response whose body holds a fact went to the status
\* bucket while a 2xx response with a malformed body went to the other bucket.
C3_Witness ==
  \E r, q \in Requests :
    /\ upstream[r] = Response(503, WithFact(CatFact))
    /\ fetched[r].value = FallbackStatus
    /\ upstream[q] = Response(200, Malformed)
    /\ fetched[q].value = FallbackOther

\* C4: a response emitted for GET /me is either the complete 200 body or the
\* 500 body {"detail": "Internal server error"}; nothing else is emitted.
C4_TwoShapes ==
  \A r \in Requests :
    Me(r) =>
      IF Emitted(r)
        THEN \/ resp[r].code = 200 /\ DOMAIN resp[r].body = FullBody
             \/ /\ resp[r].code = 500
                /\ DOMAIN resp[r].body = {"detail"}
                /\ resp[r].body.detail = "Internal server error"
        ELSE resp[r] = NoResponse

\* C4 witness: one request got the 500 body and another the complete 200 body.
C4_Witness ==
  \E r, q \in Requests :
    /\ Me(r) /\ Emitted(r) /\ resp[r].code = 500
    /\ Me(q) /\ Emitted(q) /\ resp[q].code = 200

\* C5: a GET /me request makes exactly one outbound GET, whatever its outcome.
C5_SingleAttempt ==
  \A r \in Requests :
    Me(r) => attempts[r] = 1

\* C5 witness: requests whose upstream call timed out and returned a non-2xx
\* status have been answered.
C5_Witness ==
  \E r, q \in Requests :
    /\ Me(r) /\ Emitted(r) /\ IsTimeout(upstream[r])
    /\ Me(q) /\ Emitted(q) /\ IsBadStatus(upstream[q])

\* C6: GET / and GET /health make no upstream call and answer at once: / with
\* the fixed payload, /health with status "healthy" and the current time.
C6_InfoEndpoints ==
  \A r \in Requests :
    /\ path[r] \in {"/", "/health"} =>
         (attempts[r] = 0 /\ ~Delivered(r) /\ Emitted(r) /\ resp[r].code = 200)
    /\ path[r] = "/" =>
         /\ DOMAIN resp[r].body = {"message", "endpoints"}
         /\ resp[r].body.message = "Welcome to Stage 0 Profile API"
         /\ DOMAIN resp[r].body.endpoints = {"me", "health"}
    /\ path[r] = "/health" =>
         /\ resp[r].body.status = "healthy"
         /\ fromisoformat(resp[r].body.timestamp) = utcnow(returnedAt[r])

\* C6 witness: /health answered while the upstream call of a /me request was
\* pending.
C6_Witness ==
  \E r, q \in Requests :
    /\ path[r] = "/health" /\ Emitted(r)
    /\ Me(q) /\ pc[q] = "awaiting"

OwnFact(result) ==
  CASE IsTimeout(result) -> JStr("Cat fact unavailable: API timeout")
    [] IsBadStatus(result) -> JStr("Cat fact unavailable: API error")
    [] IsOtherFailure(result) -> JStr("Cat fact unavailable: Network error")
    [] IsParsedObject(result) /\ result.body.hasFact -> result.body.fact
    [] OTHER -> JStr("No cat fact available")

\* C8: under every interleaving, the fact of a 200 response is the one its own
\* upstream outcome determines, its user is the Profile configured at start,
\* and the configuration is never modified.
C8_NoSharedState ==
  /\ config = Profile
  /\ \A r \in Requests :
       (Me(r) /\ Emitted(r) /\ resp[r].code = 200) =>
         /\ resp[r].body.fact = OwnFact(upstream[r])
         /\ resp[r].body.user =
              [email |-> Profile[1], name |-> Profile[2], stack |-> Profile[3]]

\* C8 witness: a later request was answered while an earlier one was still
\* suspended at its upstream call.
C8_Witness ==
  \E r, q \in Requests :
    /\ r < q
    /\ Me(r) /\ pc[r] = "awaiting"
    /\ Me(q) /\ Emitted(q) /\ resp[q].code = 200

\* C9: a GET /me request cancelled at its pending upstream call emits no
\* response: fetch_cat_fact returns no fallback string and logs no outcome,
\* get_profile emits neither the 200 nor the 500 body, and no further
\* outbound call is made.
C9_CancelPropagates ==
  \A r \in Requests :
    upstream[r] = Raised("CancelledError") =>
      /\ pc[r] = "cancelled"
      /\ fetched[r].kind = "raise"
      /\ fetched[r].exc = "CancelledError"
      /\ resp[r] = NoResponse
      /\ log[r] = <<LogFetching>>
      /\ attempts[r] = 1

\* C9 witness: a request has been cancelled while another was answered.
C9_Witness ==
  \E r, q \in Requests :
    /\ upstream[r] = Raised("CancelledError")
    /\ Me(q) /\ Emitted(q)

IsFetchEntry(e) == e \in {LogFetching, LogFetched, LogTimeout, LogStatus, LogOther}
FetchLog(r) == SelectSeq(log[r], IsFetchEntry)

\* The outcome entry that belongs to a value fetch_cat_fact returned.
OutcomeEntry(v) ==
  CASE v = PyStr("Cat fact unavailable: API timeout") -> LogTimeout
    [] v = PyStr("Cat fact unavailable: API error") -> LogStatus
    [] v = PyStr("Cat fact unavailable: Network error") -> LogOther
    [] OTHER -> LogFetched

\* C10: a call of fetch_cat_fact logs the attempt-start entry before the
\* outbound call and, once it returns, exactly one outcome entry, the one of
\* the returned value: the success entry exactly for a value of the success
\* path, else the entry of the fallback string's bucket.
C10_LogMatchesOutcome ==
  \A r \in Requests :
    Me(r) =>
      /\ attempts[r] = 1 /\ Len(log[r]) >= 1 /\ log[r][1] = LogFetching
      /\ fetched[r].kind # "return" => FetchLog(r) = <<LogFetching>>
      /\ fetched[r].kind = "return" =>
           /\ FetchLog(r) = <<LogFetching, OutcomeEntry(fetched[r].value)>>
           /\ (FetchLog(r)[2] = LogFetched) <=> IsParsedObject(upstream[r])

\* C10 witness: a call that failed after a 2xx response (malformed body) and a
\* call that succeeded have both returned.
C10_Witness ==
  \E r, q \in Requests :
    /\ upstream[r] = Response(200, Malformed) /\ fetched[r].kind = "return"
    /\ upstream[q] = Response(200, WithFact(CatFact)) /\ fetched[q].kind = "return"

====
